---- MODULE Spec2Model ----
(***************************************************************************)
(* A model of wheeledit's WheelEditor (src/wheeledit/editor.py): one       *)
(* editing session bound to one wheel archive, the temporary extraction    *)
(* directory it owns, and the file system around it.                       *)
(*                                                                         *)
(* Text is modelled at the level of characters: a string is a sequence of  *)
(* one-character strings, a path is a sequence of components (pathlib's    *)
(* parts), and a file is a sequence of lines, each line the sequence of    *)
(* its comma-separated fields (each line ends with a newline).             *)
(***************************************************************************)
EXTENDS Integers, Sequences, FiniteSets, TLC

VARIABLES
    dirs,          \* the directories of the file system (absolute paths)
    files,         \* the regular files: absolute path -> contents
    archives,      \* the wheel archives on disk: absolute path -> packed tree
    unpacked_dir,  \* WheelEditor.unpacked_dir (None before unpack)
    ntemp,         \* how many temporary directories mkdtemp has handed out
    last,          \* the last call made on the session and how it ended
    nops           \* how many calls were made (bounds the run)

vars == <<dirs, files, archives, unpacked_dir, ntemp, last, nops>>

(***************************************************************************)
(* Bounds of the model.                                                    *)
(***************************************************************************)
MaxOps == 2

(***************************************************************************)
(* Strings.                                                                *)
(***************************************************************************)
None == <<>>

AsciiLetters ==
    {"a","b","c","d","e","f","g","h","i","j","k","l","m","n","o","p","q","r",
     "s","t","u","v","w","x","y","z","A","B","C","D","E","F","G","H","I","J",
     "K","L","M","N","O","P","Q","R","S","T","U","V","W","X","Y","Z"}
Digits == {"0","1","2","3","4","5","6","7","8","9"}
\* a letter outside ASCII (str.isalnum() is true of it)
NonAsciiLetters == {"U+00E9"}
\* a byte that is not valid UTF-8
BadByte == "0xFF"

S_METADATA == <<"M","E","T","A","D","A","T","A">>
S_RECORD == <<"R","E","C","O","R","D">>
S_DISTINFO == <<".","d","i","s","t","-","i","n","f","o">>
S_NAMEFIELD == <<"N","a","m","e",":"," ">>
S_SHA256 == <<"s","h","a","2","5","6","=">>
S_WHL == <<".","w","h","l">>
S_DOTDOT == <<".",".">>

RECURSIVE Concat(_)
\* the concatenation of a sequence of strings
Concat(ss) == IF ss = <<>> THEN <<>> ELSE Head(ss) \o Concat(Tail(ss))

\* str.startswith / str.endswith
StartsWith(s, p) == Len(p) <= Len(s) /\ SubSeq(s, 1, Len(p)) = p
EndsWith(s, p) == Len(p) <= Len(s) /\ SubSeq(s, Len(s) - Len(p) + 1, Len(s)) = p

\* the positions at which p occurs in s
Occurrences(s, p) ==
    {i \in 1..(Len(s) - Len(p) + 1) : SubSeq(s, i, i + Len(p) - 1) = p}
\* `p in s`
Contains(s, p) == Occurrences(s, p) # {}
\* s.find(p), 1-based; 0 when p does not occur
Find(s, p) ==
    IF Contains(s, p)
    THEN CHOOSE i \in Occurrences(s, p) : \A j \in Occurrences(s, p) : i <= j
    ELSE 0

RECURSIVE Split(_, _)
\* s.split(c) for a one-character separator c
Split(s, c) ==
    LET i == Find(s, <<c>>)
    IN  IF i = 0 THEN <<s>>
        ELSE <<SubSeq(s, 1, i - 1)>> \o Split(SubSeq(s, i + 1, Len(s)), c)

RECURSIVE Join(_, _)
\* c.join(parts)
Join(parts, c) ==
    IF parts = <<>> THEN <<>>
    ELSE IF Len(parts) = 1 THEN parts[1]
    ELSE parts[1] \o <<c>> \o Join(Tail(parts), c)

RECURSIVE StrReplace(_, _, _)
\* s.replace(old, new) for a non-empty old
StrReplace(s, old, new) ==
    LET i == Find(s, old)
    IN  IF i = 0 THEN s
        ELSE SubSeq(s, 1, i - 1) \o new
             \o StrReplace(SubSeq(s, i + Len(old), Len(s)), old, new)

RECURSIVE DecStr(_)
\* str(n) of a natural number
DecStr(n) ==
    LET d == <<"0","1","2","3","4","5","6","7","8","9">>
    IN  IF n < 10 THEN <<d[n + 1]>> ELSE DecStr(n \div 10) \o <<d[(n % 10) + 1]>>

RECURSIVE SeqsUpTo(_, _)
\* all sequences over S of length at most n
SeqsUpTo(S, n) ==
    IF n = 0 THEN {<<>>}
    ELSE LET shorter == SeqsUpTo(S, n - 1)
         IN  shorter \cup {Append(s, c) : s \in shorter, c \in S}

(***************************************************************************)
(* Paths (pathlib.Path): a sequence of components.                         *)
(***************************************************************************)
\* Path.parent
Parent(p) == IF p = <<>> THEN <<>> ELSE SubSeq(p, 1, Len(p) - 1)
\* Path.name
BaseName(p) == IF p = <<>> THEN <<>> ELSE p[Len(p)]
\* p is q or lies below q, component by component (what relative_to accepts)
IsUnder(p, q) == Len(q) <= Len(p) /\ SubSeq(p, 1, Len(q)) = q
\* Path.relative_to(q), for a p that IsUnder q
RelativeTo(p, q) == SubSeq(p, Len(q) + 1, Len(p))
\* str(path) of a relative path, and Path(str)
PathStr(p) == Join(p, "/")
StrPath(s) == IF s = <<>> THEN <<>> ELSE SelectSeq(Split(s, "/"), LAMBDA c : c # <<>>)

RECURSIVE Resolve(_)
\* the file the operating system reaches for an absolute path: each `..`
\* steps back to the parent directory (the root is its own parent)
Resolve(p) ==
    IF p = <<>> THEN <<>>
    ELSE LET r == Resolve(Parent(p))
         IN  IF BaseName(p) = S_DOTDOT THEN Parent(r) ELSE Append(r, BaseName(p))

\* Path.stem of a file name: the name without its last suffix
Stem(name) ==
    LET dots == {i \in 2..Len(name) : name[i] = "."}
    IN  IF dots = {} \/ name[Len(name)] = "." THEN name
        ELSE SubSeq(name, 1, (CHOOSE i \in dots : \A j \in dots : j <= i) - 1)

(***************************************************************************)
(* The file system.  A state s of the program is the record                *)
(* [dirs, files, archives, unpacked_dir, ntemp]; every method maps a state *)
(* to the set of outcomes [s, err, ...] it can end in (err = "" when it    *)
(* returns, the exception otherwise).                                      *)
(***************************************************************************)
D_TMP == <<"t","m","p">>
D_IN == <<"i","n">>
D_OUT == <<"o","u","t">>
D_SRC == <<"s","r","c">>

IsDir(s, p) == Resolve(p) \in s.dirs
IsFile(s, p) == Resolve(p) \in DOMAIN s.files
\* Path.exists / os.path.exists
Exists(s, p) == IsDir(s, p) \/ IsFile(s, p)

\* the entries of directory d (iterdir, scandir)
Entries(s, d) == {p \in s.dirs \cup DOMAIN s.files : p # <<>> /\ Parent(p) = d}
\* everything below directory d, d excluded
Below(s, d) == {p \in s.dirs \cup DOMAIN s.files : IsUnder(p, d) /\ p # d}

\* the proper and improper prefixes of p, the root excluded
Ancestors(p) == {SubSeq(p, 1, k) : k \in 1..Len(p)}

\* Path.mkdir(parents=True, exist_ok=True): fails when a file is in the way
MkdirOk(s, p) == Ancestors(Resolve(p)) \cap DOMAIN s.files = {}
Mkdir(s, p) == [s EXCEPT !.dirs = @ \cup Ancestors(Resolve(p))]

\* the file shutil.copy2(src, dst) writes: dst itself, or, when dst is a
\* directory, the file named like src in it
CopyDest(s, src, dst) ==
    IF IsDir(s, dst) THEN Append(Resolve(dst), BaseName(src)) ELSE Resolve(dst)
CopyOk(s, src, dst) ==
    /\ IsFile(s, src)
    /\ CopyDest(s, src, dst) \notin s.dirs
    /\ Parent(CopyDest(s, src, dst)) \in s.dirs
Copy2(s, src, dst) ==
    LET d == CopyDest(s, src, dst)
    IN  [s EXCEPT !.files =
            [p \in DOMAIN s.files \cup {d} |->
                IF p = d THEN s.files[Resolve(src)] ELSE s.files[p]]]

\* writing contents c to the existing or new file p
WriteFile(s, p, c) ==
    [s EXCEPT !.files = [q \in DOMAIN s.files \cup {p} |-> IF q = p THEN c ELSE s.files[q]]]

\* os.rename(src, dst) of an existing src whose destination's parent exists
RenameOk(s, src, dst) ==
    \/ src = dst
    \/ /\ src \in s.dirs
       /\ dst \notin DOMAIN s.files
       /\ dst \in s.dirs => Below(s, dst) = {}
       /\ ~IsUnder(dst, src)
       /\ Parent(dst) \in s.dirs
    \/ /\ src \in DOMAIN s.files
       /\ dst \notin s.dirs
       /\ Parent(dst) \in s.dirs
Moved(p, src, dst) == IF IsUnder(p, src) THEN dst \o RelativeTo(p, src) ELSE p
Rename(s, src, dst) ==
    IF src = dst THEN s
    ELSE LET keptFiles == {p \in DOMAIN s.files : p # dst}
             newFiles == {Moved(p, src, dst) : p \in keptFiles}
             origin(q) == CHOOSE p \in keptFiles : Moved(p, src, dst) = q
         IN  [s EXCEPT !.dirs = {Moved(p, src, dst) : p \in s.dirs},
                       !.files = [q \in newFiles |-> s.files[origin(q)]]]

\* shutil.rmtree(d)
Rmtree(s, d) ==
    [s EXCEPT !.dirs = {p \in @ : ~IsUnder(p, d)},
              !.files = [p \in {q \in DOMAIN s.files : ~IsUnder(q, d)} |-> s.files[p]]]

(***************************************************************************)
(* Outcomes of a call.                                                     *)
(***************************************************************************)
\* the call returned (err = "") or raised err, leaving state s
Outcome(s, err) ==
    [s |-> s, err |-> err, has |-> FALSE, text |-> <<>>, name |-> <<>>, renamed |-> <<>>,
     path |-> <<>>, old |-> <<>>]
Returned(s) == Outcome(s, "")

E_INVALID_NAME == "ValueError: Invalid package name"
E_NO_DISTINFO == "ValueError: No .dist-info directory found in the wheel"
E_NO_SUBDIRS == "ValueError: No subdirectories found after unpacking wheel"
E_OUTSIDE == "ValueError: Target path must be inside the wheel"
E_NOT_UNPACKED == "ValueError: Wheel must be unpacked before repackaging"
E_NOT_FOUND == "FileNotFoundError"
E_OS == "OSError"
E_DECODE == "UnicodeDecodeError"
E_CODEC == "WheelError"
E_TYPE == "TypeError"
E_ATTRIBUTE == "AttributeError"
E_JSON == "JSONDecodeError"

(***************************************************************************)
(* File contents, hashes and the wheels the session may be bound to.       *)
(***************************************************************************)
\* the text of one line: its fields joined by commas
LineText(line) == Join(line, ",")
\* the bytes of a file: every line followed by a newline
Bytes(content) == Concat([i \in 1..Len(content) |-> LineText(content[i]) \o <<"\n">>])
\* open(path, 'r', encoding='utf-8') can decode the file
Decodes(content) == \A i \in 1..Len(Bytes(content)) : Bytes(content)[i] # BadByte

\* hashlib.sha256(content).hexdigest(): collision-free, so the digest of a
\* file is modelled by an injective image of its bytes, free of separators
Sha256Hex(bytes) ==
    [i \in 1..Len(bytes) |->
        CASE bytes[i] = "," -> "%2C" [] bytes[i] = "\n" -> "%0A" [] OTHER -> bytes[i]]
\* the RECORD fields of a file with these contents
HashField(content) == S_SHA256 \o Sha256Hex(Bytes(content))
SizeField(content) == DecStr(Len(Bytes(content)))

N_d == <<"d">>
V_1 == <<"1">>
DistInfoName(name, version) == name \o <<"-">> \o version \o S_DISTINFO
P_MODULE == <<<<"m">>>>
C_MODULE == <<<<<<"x">>>>>>
MetadataText(name) == <<<<S_NAMEFIELD \o name>>, <<<<"V","e","r",":"," ","1">>>>>>

\* a packed tree: the name of its top-level directory, and the directories
\* and files in it (paths relative to the top-level directory)
Tree(top, ds, fs) == [top |-> top, dirs |-> ds, files |-> fs]

\* a METADATA file that is not UTF-8 text
MetadataUndecodable == <<<<S_NAMEFIELD \o <<BadByte>>>>>>
NoFile == <<>>

\* the wheel d-1 with one module, the METADATA file `meta` (unless NoFile) and,
\* with `record`, a RECORD file that lists every file with its hash and size;
\* `extra` are further top-level *.dist-info directories in the archive
WheelOf(record, meta, extra) ==
    LET di == DistInfoName(N_d, V_1)
        fMeta == IF meta # NoFile THEN (<<di, S_METADATA>> :> meta) ELSE <<>>
        body == (P_MODULE :> C_MODULE) @@ fMeta
        listed == [i \in 1..Cardinality(DOMAIN body) |->
                     LET p == CHOOSE q \in DOMAIN body :
                                 Cardinality({r \in DOMAIN body : Len(r) < Len(q)}) = i - 1
                     IN  <<PathStr(p), HashField(body[p]), SizeField(body[p])>>]
        fRecord == IF record
                   THEN (<<di, S_RECORD>> :>
                            (listed \o <<<<PathStr(<<di, S_RECORD>>), <<>>, <<>>>>>>))
                   ELSE <<>>
    IN  Tree(N_d \o <<"-">> \o V_1, {<<di>>} \cup {<<e>> : e \in extra}, body @@ fRecord)

\* a second .dist-info directory, its name with a separator more and its
\* version with a dot
N_OTHER == <<"q","-","r">>
V_OTHER == <<"1",".","0">>

\* a file of a vendored package, named like a manifest
P_VENDORED == <<<<"m","v">>, S_RECORD>>
C_VENDORED == <<<<<<"y">>>>>>
\* a metadata body with a second header field whose line has the text `Name: `
MetadataWithOtherName ==
    MetadataText(N_d) \o <<<<<<"X","-">> \o S_NAMEFIELD \o <<"z">>>>>>
\* the wheel d-1 with that file, that metadata body and a RECORD that lists
\* every file
WheelVendored ==
    LET di == DistInfoName(N_d, V_1)
        body == (P_MODULE :> C_MODULE) @@ (<<di, S_METADATA>> :> MetadataWithOtherName)
                @@ (P_VENDORED :> C_VENDORED)
        entry(p) == <<PathStr(p), HashField(body[p]), SizeField(body[p])>>
        manifest == <<entry(P_MODULE), entry(<<di, S_METADATA>>), entry(P_VENDORED),
                      <<PathStr(<<di, S_RECORD>>), <<>>, <<>>>>>>
    IN  Tree(N_d \o <<"-">> \o V_1, {<<di>>, Parent(P_VENDORED)},
             body @@ (<<di, S_RECORD>> :> manifest))

Wheels ==
    { WheelOf(TRUE, MetadataText(N_d), {}),
      WheelOf(FALSE, NoFile, {}),
      WheelOf(TRUE, MetadataUndecodable, {}),
      WheelOf(TRUE, MetadataText(N_d), {DistInfoName(N_OTHER, V_OTHER)}),
      WheelVendored }

\* the name the pack codec gives the archive of a tree: its identity and version
ArchiveName(namever) == namever \o S_WHL
\* WheelEditor.wheel_path
wheel_path == <<D_IN, ArchiveName(N_d \o <<"-">> \o V_1)>>

\* the files given as sources to replace_file and replace_metadata
SRC_META == <<D_SRC, <<"M">>>>
SRC_BINARY == <<D_SRC, <<"b">>>>
SRC_MISSING == <<D_SRC, <<"n","o">>>>
\* a manifest written by hand: a record of one field for the module, a blank
\* line, and a record of two fields
SRC_RECORD == <<D_SRC, <<"R">>>>
\* a metadata file in JSON, given to the command-line driver
S_JSON == <<".","j","s","o","n">>
SRC_JSON == <<D_SRC, <<"j">> \o S_JSON>>
SourceFiles ==
    (SRC_META :> <<<<<<"V","e","r",":"," ","2">>>>>>)
    @@ (SRC_BINARY :> <<<<<<BadByte>>>>>>)
    @@ (SRC_JSON :> <<<<<<"{","}">>>>>>)
    @@ (SRC_RECORD :> <<<<PathStr(P_MODULE)>>, <<<<>>>>, <<PathStr(P_MODULE), <<"h">>>>>>)

(***************************************************************************)
(* WheelEditor.                                                            *)
(***************************************************************************)
\* tempfile.mkdtemp(): a fresh directory under the temporary location
TempDir(k) == <<D_TMP, <<"t">> \o DecStr(k)>>
\* the temporary directories this session has created that still exist
TempDirs(s) == {TempDir(k) : k \in 1..s.ntemp} \cap s.dirs

\* wheel.cli.unpack.unpack(wheel, dest): the tree of the archive below dest
Extract(s, a, dest) ==
    LET top == Append(dest, a.top)
        newFiles == {top \o f : f \in DOMAIN a.files}
    IN  [s EXCEPT !.dirs = @ \cup {top} \cup {top \o d : d \in a.dirs}
                           \cup UNION {Ancestors(Parent(f)) : f \in newFiles},
                  !.files = [f \in DOMAIN s.files \cup newFiles |->
                               IF f \in newFiles THEN a.files[RelativeTo(f, top)]
                               ELSE s.files[f]]]

\* unpack that extracts the archive again whether or not the session is unpacked
unpack_AlwaysExtracts(s) ==
    LET temp_dir == TempDir(s.ntemp + 1)
        made == [s EXCEPT !.dirs = @ \cup {temp_dir}, !.ntemp = @ + 1]
    IN  {Outcome(made, E_CODEC), Outcome(made, E_NO_SUBDIRS)}
        \cup IF wheel_path \in DOMAIN s.archives
             THEN LET a == s.archives[wheel_path]
                  IN  {[Returned([Extract(made, a, temp_dir)
                                    EXCEPT !.unpacked_dir = Append(temp_dir, a.top)])
                          EXCEPT !.path = Append(temp_dir, a.top)]}
             ELSE {}

\* WheelEditor.unpack.  The codec either raises, or leaves no subdirectory, or
\* extracts the archive at wheel_path.
unpack(s) ==
    IF s.unpacked_dir # None THEN {[Returned(s) EXCEPT !.path = s.unpacked_dir]}
    ELSE LET temp_dir == TempDir(s.ntemp + 1)
             made == [s EXCEPT !.dirs = @ \cup {temp_dir}, !.ntemp = @ + 1]
         IN  {Outcome(made, E_CODEC), Outcome(made, E_NO_SUBDIRS)}
             \cup IF wheel_path \in DOMAIN s.archives
                  THEN LET a == s.archives[wheel_path]
                       IN  {[Returned([Extract(made, a, temp_dir)
                                         EXCEPT !.unpacked_dir = Append(temp_dir, a.top)])
                               EXCEPT !.path = Append(temp_dir, a.top)]}
                  ELSE {}

\* the `if self.unpacked_dir is None: self.unpack()` every method starts with
Unpacked(s) == IF s.unpacked_dir = None THEN unpack(s) ELSE {Returned(s)}

\* self.unpacked_dir.glob('*.dist-info'): the top-level entries with that suffix
DistInfoGlob(s) ==
    {p \in Entries(s, s.unpacked_dir) : EndsWith(BaseName(p), S_DISTINFO)}

\* cleanup that removes the directory and keeps self.unpacked_dir
cleanup_KeepsHandle(s) ==
    IF s.unpacked_dir # None /\ Exists(s, Parent(s.unpacked_dir))
    THEN Rmtree(s, Parent(s.unpacked_dir))
    ELSE s

\* WheelEditor.cleanup
cleanup(s) ==
    IF s.unpacked_dir # None /\ Exists(s, Parent(s.unpacked_dir))
    THEN [Rmtree(s, Parent(s.unpacked_dir)) EXCEPT !.unpacked_dir = None]
    ELSE s

\* str.isalnum() of one character
IsAlnum(c) == c \in AsciiLetters \cup Digits \cup NonAsciiLetters
\* re.match(r'^[a-zA-Z0-9._-]+$', name): `$` also matches before a final newline
MatchesNameGrammar(name) ==
    LET body == IF name # <<>> /\ name[Len(name)] = "\n"
                THEN SubSeq(name, 1, Len(name) - 1) ELSE name
    IN  /\ body # <<>>
        /\ \A i \in 1..Len(body) : body[i] \in AsciiLetters \cup Digits \cup {".", "_", "-"}

\* validate_package_name without the check of the first and last character
validate_package_name_NoEdgeCheck(name) ==
    /\ name # <<>>
    /\ MatchesNameGrammar(name)

\* WheelEditor.validate_package_name
validate_package_name(name) ==
    /\ name # <<>>
    /\ MatchesNameGrammar(name)
    /\ IsAlnum(name[1]) /\ IsAlnum(name[Len(name)])

\* SubNameLine writing the name as the directory spells it, `-` as `_`
SubNameLine_Normalized(line, new_name) ==
    LET text == LineText(line)
        i == Find(text, S_NAMEFIELD)
    IN  IF i = 0 THEN line
        ELSE Split(SubSeq(text, 1, i - 1) \o S_NAMEFIELD
                   \o StrReplace(new_name, <<"-">>, <<"_">>), ",")

\* re.sub(r'Name: .*', 'Name: ' + new_name, line) on the text of one line
SubNameLine(line, new_name) ==
    LET text == LineText(line)
        i == Find(text, S_NAMEFIELD)
    IN  IF i = 0 THEN line
        ELSE Split(SubSeq(text, 1, i - 1) \o S_NAMEFIELD \o new_name, ",")
\* the same on a whole text: `.` does not match the newline
SubName(content, new_name) ==
    [k \in 1..Len(content) |-> SubNameLine(content[k], new_name)]

\* NewDistInfoName with the new name taken as given, `-` kept
NewDistInfoName_Verbatim(old_name, new_name) ==
    LET stem == Stem(old_name)
        parts == Split(stem, "-")
        version == IF Contains(stem, <<"-">>) THEN <<"-">> \o parts[Len(parts)] ELSE <<>>
    IN  new_name \o version \o S_DISTINFO

\* NewDistInfoName with the version taken right after the first hyphen
NewDistInfoName_FirstHyphen(old_name, new_name) ==
    LET stem == Stem(old_name)
        parts == Split(stem, "-")
        version == IF Contains(stem, <<"-">>) THEN <<"-">> \o parts[2] ELSE <<>>
    IN  StrReplace(new_name, <<"-">>, <<"_">>) \o version \o S_DISTINFO

\* the new name of the .dist-info directory
NewDistInfoName(old_name, new_name) ==
    LET stem == Stem(old_name)
        parts == Split(stem, "-")
        version == IF Contains(stem, <<"-">>) THEN <<"-">> \o parts[Len(parts)] ELSE <<>>
    IN  StrReplace(new_name, <<"-">>, <<"_">>) \o version \o S_DISTINFO

\* rename_package from the rename of the directory on, old_dist_info chosen
RenameDistInfo(s, old_dist_info, new_name) ==
    LET new_dist_info_path ==
            Append(Parent(old_dist_info), NewDistInfoName(BaseName(old_dist_info), new_name))
        metadata_path == Append(new_dist_info_path, S_METADATA)
        moved == Rename(s, old_dist_info, new_dist_info_path)
        ended(o) == [o EXCEPT !.path = new_dist_info_path, !.old = old_dist_info]
    IN  IF ~RenameOk(s, old_dist_info, new_dist_info_path) THEN Outcome(s, E_OS)
        ELSE IF ~Exists(moved, metadata_path)
             THEN ended([Returned(moved) EXCEPT !.name = new_name])
        ELSE IF IsDir(moved, metadata_path) THEN ended(Outcome(moved, E_OS))
        ELSE IF ~Decodes(moved.files[metadata_path]) THEN ended(Outcome(moved, E_DECODE))
        ELSE ended([Returned(WriteFile(moved, metadata_path,
                                       SubName(moved.files[metadata_path], new_name)))
                      EXCEPT !.name = new_name])

\* WheelEditor.rename_package
rename_package(s, new_name) ==
    IF ~validate_package_name(new_name) THEN {Outcome(s, E_INVALID_NAME)}
    ELSE UNION {
        IF u.err # "" THEN {u}
        ELSE IF DistInfoGlob(u.s) = {} THEN {Outcome(u.s, E_NO_DISTINFO)}
        ELSE {RenameDistInfo(u.s, old_dist_info, new_name) :
                 old_dist_info \in DistInfoGlob(u.s)}
        : u \in Unpacked(s)}

\* WheelEditor.get_metadata
get_metadata(s) ==
    UNION {
        IF u.err # "" THEN {u}
        ELSE IF DistInfoGlob(u.s) = {} THEN {Outcome(u.s, E_NO_DISTINFO)}
        ELSE {LET metadata_path == Append(d, S_METADATA)
              IN  IF ~Exists(u.s, metadata_path) THEN Returned(u.s)
                  ELSE IF IsDir(u.s, metadata_path) THEN Outcome(u.s, E_OS)
                  ELSE IF ~Decodes(u.s.files[metadata_path]) THEN Outcome(u.s, E_DECODE)
                  ELSE [Returned(u.s) EXCEPT !.has = TRUE, !.text = u.s.files[metadata_path]]
              : d \in DistInfoGlob(u.s)}
        : u \in Unpacked(s)}

\* a target given to replace_file: Path(target_path), absolute or relative
Target(abs, parts) == [abs |-> abs, parts |-> parts]

\* WheelEditor.replace_file
replace_file(s, target_path, source_path) ==
    {   IF u.err # "" THEN u
        ELSE IF ~Exists(u.s, source_path) THEN Outcome(u.s, E_NOT_FOUND)
        ELSE IF target_path.abs /\ ~IsUnder(target_path.parts, u.s.unpacked_dir)
             THEN Outcome(u.s, E_OUTSIDE)
        ELSE LET rel == IF target_path.abs
                        THEN RelativeTo(target_path.parts, u.s.unpacked_dir)
                        ELSE target_path.parts
                 full_target_path == u.s.unpacked_dir \o rel
             IN  IF ~MkdirOk(u.s, Parent(full_target_path)) THEN Outcome(u.s, E_OS)
                 ELSE LET made == Mkdir(u.s, Parent(full_target_path))
                      IN  IF ~CopyOk(made, source_path, full_target_path)
                          THEN Outcome(made, E_OS)
                          ELSE [Returned(Copy2(made, source_path, full_target_path))
                                  EXCEPT !.path = full_target_path]
        : u \in Unpacked(s)}

\* WheelEditor.replace_metadata
replace_metadata(s, source_path) ==
    UNION {
        IF u.err # "" THEN {u}
        ELSE IF ~Exists(u.s, source_path) THEN {Outcome(u.s, E_NOT_FOUND)}
        ELSE IF DistInfoGlob(u.s) = {} THEN {Outcome(u.s, E_NO_DISTINFO)}
        ELSE {LET target_path == Append(d, S_METADATA)
              IN  IF ~CopyOk(u.s, source_path, target_path) THEN Outcome(u.s, E_OS)
                  ELSE Returned(Copy2(u.s, source_path, target_path))
              : d \in DistInfoGlob(u.s)}
        : u \in Unpacked(s)}

RECURSIVE Strip(_)
\* str.strip()
Strip(text) ==
    IF text = <<>> THEN text
    ELSE IF Head(text) \in {" ", "\t", "\n"} THEN Strip(Tail(text))
    ELSE IF text[Len(text)] \in {" ", "\t", "\n"} THEN Strip(SubSeq(text, 1, Len(text) - 1))
    ELSE text

\* the record _update_record_file emits for one non-blank line of RECORD
UpdatedRecord(s, parts) ==
    IF Len(parts) >= 3
    THEN LET filepath == parts[1]
             full_path == s.unpacked_dir \o StrPath(filepath)
         IN  IF EndsWith(filepath, S_RECORD) THEN <<filepath, <<>>, <<>>>>
             ELSE IF IsFile(s, full_path)
                  THEN <<filepath, HashField(s.files[Resolve(full_path)]),
                         SizeField(s.files[Resolve(full_path)])>>
             ELSE <<filepath, parts[2], parts[3]>>
    ELSE parts \o [i \in 1..(3 - Len(parts)) |-> <<>>]

\* the records _update_record_file reads a path of which is a directory:
\* os.path.exists holds and open() raises
ReadsDirectory(s, content) ==
    \E k \in 1..Len(content) :
        LET parts == Split(Strip(LineText(content[k])), ",")
        IN  /\ Strip(LineText(content[k])) # <<>>
            /\ Len(parts) >= 3
            /\ ~EndsWith(parts[1], S_RECORD)
            /\ IsDir(s, s.unpacked_dir \o StrPath(parts[1]))

\* the RECORD file _update_record_file writes from the one it read
UpdatedRecordFile(s, content) ==
    LET kept == SelectSeq(content, LAMBDA line : Strip(LineText(line)) # <<>>)
    IN  [k \in 1..Len(kept) |-> UpdatedRecord(s, Split(Strip(LineText(kept[k])), ","))]

\* WheelEditor._update_record_file
_update_record_file(s) ==
    IF s.unpacked_dir = None THEN {Outcome(s, E_TYPE)}
    ELSE IF DistInfoGlob(s) = {} THEN {Outcome(s, E_NO_DISTINFO)}
    ELSE {LET record_path == Append(d, S_RECORD)
          IN  IF ~Exists(s, record_path) THEN Returned(s)
              ELSE IF IsDir(s, record_path) THEN Outcome(s, E_OS)
              ELSE IF ~Decodes(s.files[record_path]) THEN Outcome(s, E_DECODE)
              ELSE IF ReadsDirectory(s, s.files[record_path]) THEN Outcome(s, E_OS)
              ELSE [Returned(WriteFile(s, record_path,
                                       UpdatedRecordFile(s, s.files[record_path])))
                      EXCEPT !.path = record_path]
          : d \in DistInfoGlob(s)}

\* the tree below the extraction directory, as the pack codec reads it
PackedTree(s, top) ==
    LET root == s.unpacked_dir
        fs == {p \in DOMAIN s.files : IsUnder(p, root)}
    IN  Tree(top,
             {RelativeTo(p, root) : p \in {q \in s.dirs : IsUnder(q, root) /\ q # root}},
             [f \in {RelativeTo(p, root) : p \in fs} |-> s.files[root \o f]])

\* wheel.cli.pack.pack(directory, dest_dir): raises, or writes the archive of
\* the tree into dest_dir under the name of the tree's one .dist-info directory
pack(s, dest_dir) ==
    {Outcome(s, E_CODEC)}
    \cup IF Cardinality(DistInfoGlob(s) \cap s.dirs) = 1 /\ IsDir(s, dest_dir)
         THEN LET d == CHOOSE x \in DistInfoGlob(s) \cap s.dirs : TRUE
                  namever == Stem(BaseName(d))
                  written == Append(Resolve(dest_dir), ArchiveName(namever))
              IN  {[Returned([s EXCEPT !.archives =
                        [a \in DOMAIN @ \cup {written} |->
                            IF a = written THEN PackedTree(s, namever) ELSE @[a]]])
                      EXCEPT !.path = written]}
         ELSE {}

\* repackage without the check that the session is unpacked
repackage_NoStateCheck(s, output_path) ==
    LET out == IF output_path = None THEN wheel_path ELSE output_path
    IN  UNION {
           IF r.err # "" THEN {r}
           ELSE {IF p.err # "" THEN p ELSE [p EXCEPT !.s = cleanup(p.s)]
                 : p \in pack(r.s, Parent(out))}
           : r \in _update_record_file(s)}

\* WheelEditor.repackage; output_path = None stands for the omitted argument
repackage(s, output_path) ==
    IF s.unpacked_dir = None THEN {Outcome(s, E_NOT_UNPACKED)}
    ELSE LET out == IF output_path = None THEN wheel_path ELSE output_path
         IN  UNION {
                IF r.err # "" THEN {r}
                ELSE {IF p.err # "" THEN p ELSE [p EXCEPT !.s = cleanup(p.s)]
                      : p \in pack(r.s, Parent(out))}
                : r \in _update_record_file(s)}

\* the arguments of one rename_file call; a regular expression is a literal
\* text, with `grouped` inside one capturing group: (text)
RenameArgs(pattern, replacement, use_regex, grouped) ==
    [pattern |-> pattern, replacement |-> replacement,
     use_regex |-> use_regex, grouped |-> grouped]

\* the new relative path rename_file computes for a matching path
NewPathStr(args, str_path) ==
    LET subbed == StrReplace(str_path, args.pattern, args.replacement)
    IN  IF args.use_regex /\ args.grouped
        THEN StrReplace(subbed, <<"$", "1">>, args.pattern)
        ELSE subbed

\* the body of rename_file's loop for one file of the walk; w is the walk so
\* far: the state, the pairs renamed, and the exception that ended it
RenameOne(args, w, file_path) ==
    LET s == w.s
        str_path == PathStr(RelativeTo(file_path, s.unpacked_dir))
        new_rel_path == StrPath(NewPathStr(args, str_path))
        new_abs_path == s.unpacked_dir \o new_rel_path
        made == Mkdir(s, Parent(new_abs_path))
    IN  IF w.err # "" \/ ~Contains(str_path, args.pattern) THEN w
        ELSE IF ~MkdirOk(s, Parent(new_abs_path)) THEN [w EXCEPT !.err = E_OS]
        ELSE IF file_path \notin DOMAIN s.files THEN [w EXCEPT !.s = made, !.err = E_NOT_FOUND]
        ELSE IF ~RenameOk(made, file_path, new_abs_path) THEN [w EXCEPT !.s = made, !.err = E_OS]
        ELSE [w EXCEPT !.s = Rename(made, file_path, new_abs_path),
                       !.renamed = Append(@, <<str_path, PathStr(new_rel_path)>>)]

RECURSIVE WalkFiles(_, _, _)
RECURSIVE WalkDirs(_, _, _)
RECURSIVE WalkTree(_, _, _)
\* the files os.walk listed in one directory, taken in any order
WalkFiles(args, w, pending) ==
    IF pending = {} \/ w.err # "" THEN {w}
    ELSE UNION {WalkFiles(args, RenameOne(args, w, f), pending \ {f}) : f \in pending}
\* the subdirectories os.walk listed in one directory, walked in any order
WalkDirs(args, w, pending) ==
    IF pending = {} \/ w.err # "" THEN {w}
    ELSE UNION {UNION {WalkDirs(args, w2, pending \ {d}) : w2 \in WalkTree(args, w, d)}
                : d \in pending}
\* os.walk(d), top down: d is listed when the walk reaches it, its files are
\* handled, then its subdirectories are walked
WalkTree(args, w, d) ==
    IF d \notin w.s.dirs THEN {w}
    ELSE UNION {WalkDirs(args, w2, Entries(w.s, d) \cap w.s.dirs)
                : w2 \in WalkFiles(args, w, Entries(w.s, d) \cap DOMAIN w.s.files)}

\* WheelEditor.rename_file
rename_file(s, args) ==
    UNION {
        IF u.err # "" THEN {u}
        ELSE {[Outcome(w.s, w.err) EXCEPT !.renamed = w.renamed]
              : w \in WalkTree(args, [s |-> u.s, renamed |-> <<>>, err |-> ""],
                               u.s.unpacked_dir)}
        : u \in Unpacked(s)}

(***************************************************************************)
(* The command-line driver (src/wheeledit/cli.py).                         *)
(***************************************************************************)
\* the parsed arguments process_wheel reads; None stands for an option not given
Args(rename, metadata, output) ==
    [rename |-> rename, metadata |-> metadata, output |-> output]

\* has_modifications
has_modifications(args) == args.rename # None \/ args.metadata # None

\* the output path process_wheel computes before it creates the editor
OutputPath(args, is_directory) ==
    LET wheel_filename == BaseName(wheel_path)
        dash == Find(wheel_filename, <<"-">>)
    IN  IF args.output # None
        THEN IF is_directory THEN Append(args.output, wheel_filename) ELSE args.output
        ELSE IF args.rename # None
             THEN IF dash # 0
                  THEN Append(Parent(wheel_path),
                              StrReplace(args.rename, <<"-">>, <<"_">>) \o <<"-">>
                              \o SubSeq(wheel_filename, dash + 1, Len(wheel_filename)))
                  ELSE Append(Parent(wheel_path), args.rename \o <<"-">> \o wheel_filename)
        ELSE wheel_path

\* `if args.rename: editor.rename_package(args.rename)`
RenameStep(args, e) ==
    IF args.rename # None THEN rename_package(e, args.rename) ELSE {Returned(e)}

\* `if args.metadata: ...`: a JSON file ends in json.load or in the call of
\* update_metadata, which WheelEditor does not have; any other file is read
\* as text and given to replace_metadata
MetadataStep(args, e) ==
    IF args.metadata = None THEN {Returned(e)}
    ELSE IF ~Exists(e, args.metadata) THEN {Outcome(e, E_NOT_FOUND)}
    ELSE IF IsDir(e, args.metadata) THEN {Outcome(e, E_OS)}
    ELSE IF EndsWith(BaseName(args.metadata), S_JSON)
         THEN IF ~Decodes(e.files[Resolve(args.metadata)]) THEN {Outcome(e, E_DECODE)}
              ELSE {Outcome(e, E_JSON), Outcome(e, E_ATTRIBUTE)}
    ELSE IF ~Decodes(e.files[Resolve(args.metadata)]) THEN {Outcome(e, E_DECODE)}
    ELSE replace_metadata(e, args.metadata)

\* process_wheel: an editor of its own on the wheel; s.unpacked_dir, the
\* session's, is not the editor's and stays as it is
process_wheel(s, args, is_directory) ==
    LET output_path == OutputPath(args, is_directory)
        editor == [s EXCEPT !.unpacked_dir = None]
        finally(o) == [o EXCEPT !.s = cleanup(o.s)]
        ended(o) == [Outcome([o.s EXCEPT !.unpacked_dir = s.unpacked_dir], o.err)
                       EXCEPT !.path = IF o.err = "" THEN o.path ELSE <<>>]
        \* each statement runs from the states the one before it returned
        \* in; an outcome that raised ends the sequence
        unpacked == unpack(editor)
        shown == UNION {IF o.err # "" THEN {o} ELSE get_metadata(o.s) : o \in unpacked}
        released == {IF o.err # "" THEN o ELSE Returned(cleanup(o.s)) : o \in shown}
        renamed == UNION {IF o.err # "" THEN {o} ELSE RenameStep(args, o.s) : o \in unpacked}
        replaced == UNION {IF o.err # "" THEN {o} ELSE MetadataStep(args, o.s) : o \in renamed}
        packed == UNION {IF o.err # "" THEN {o} ELSE repackage(o.s, output_path)
                         : o \in replaced}
        done == {IF o.err # "" THEN o ELSE [Returned(o.s) EXCEPT !.path = output_path]
                 : o \in packed}
    IN  IF ~has_modifications(args)
        THEN {ended(o) : o \in released}
        ELSE {ended(finally(o)) : o \in done}

(***************************************************************************)
(* The session: the calls a caller can make, in any order.                 *)
(***************************************************************************)
St == [dirs |-> dirs, files |-> files, archives |-> archives,
       unpacked_dir |-> unpacked_dir, ntemp |-> ntemp]

NoTarget == Target(FALSE, <<>>)
\* what is kept of a call: the method, how it ended (err, and what it returned
\* or acted on), and the call before it
Record(op, o, prev) ==
    [op |-> op, err |-> o.err, has |-> o.has, text |-> o.text, name |-> o.name,
     renamed |-> o.renamed, path |-> o.path, old |-> o.old, target |-> NoTarget,
     source |-> None, output |-> None, valid |-> TRUE, prev |-> prev]
Call(op, o) == Record(op, o, [op |-> last.op, err |-> last.err, name |-> last.name])

\* the call ended in outcome o
Ends(o, call) ==
    /\ dirs' = o.s.dirs
    /\ files' = o.s.files
    /\ archives' = o.s.archives
    /\ unpacked_dir' = o.s.unpacked_dir
    /\ ntemp' = o.s.ntemp
    /\ last' = call
    /\ nops' = nops + 1

\* the distribution-name grammar as the specification words it: not empty,
\* only ASCII letters, digits, `.`, `_` and `-`, first and last alphanumeric
GrammarOk(n) ==
    /\ n # <<>>
    /\ \A i \in 1..Len(n) : n[i] \in AsciiLetters \cup Digits \cup {".", "_", "-"}
    /\ n[1] \in AsciiLetters \cup Digits
    /\ n[Len(n)] \in AsciiLetters \cup Digits

\* the names given to rename_package: every name of at most two characters,
\* and every name of three whose first and last are letters
NameChars == {"b", "-", ".", "_", " ", "\n", "U+00E9"}
Names == SeqsUpTo(NameChars, 2) \cup {<<"b", c, "b">> : c \in NameChars}

\* the targets given to replace_file
P_ESCAPE == <<S_DOTDOT, S_DOTDOT, <<"e">>>>
P_MANIFEST == <<DistInfoName(N_d, V_1), S_RECORD>>
Targets ==
    {Target(FALSE, P_ESCAPE), Target(TRUE, <<D_OUT, <<"e">>>>), Target(FALSE, P_MANIFEST)}
    \cup IF unpacked_dir = None THEN {}
         ELSE {Target(TRUE, Append(unpacked_dir, <<"n">>)),
               Target(TRUE, unpacked_dir \o <<S_DOTDOT, <<"e">>>>)}
Sources == {SRC_META, SRC_BINARY, SRC_MISSING, SRC_RECORD}

\* the arguments given to rename_file
Renames ==
    {RenameArgs(<<"m">>, <<"k">>, FALSE, FALSE),
     RenameArgs(S_METADATA, S_RECORD, FALSE, FALSE),
     RenameArgs(<<"m">>, PathStr(<<DistInfoName(N_d, V_1), <<"$","1">>>>), TRUE, TRUE)}

\* the output paths given to repackage
Outputs == {None, <<D_OUT, <<"o">> \o S_WHL>>}

\* the arguments given to process_wheel
ProcessArgs ==
    {Args(None, None, None),
     Args(<<"b">>, None, None),
     Args(<<"-">>, None, None),
     Args(None, SRC_META, None),
     Args(None, SRC_MISSING, None),
     Args(None, SRC_BINARY, <<D_OUT, <<"o">> \o S_WHL>>),
     Args(None, SRC_JSON, None),
     Args(<<"b">>, SRC_META, <<D_OUT>>)}

\* the caller may make another call
More == nops < MaxOps

Unpack == More /\ \E o \in unpack(St) : Ends(o, Call("unpack", o))
GetMetadata == More /\ \E o \in get_metadata(St) : Ends(o, Call("get_metadata", o))
RenamePackage ==
    /\ More
    /\ \E n \in Names : \E o \in rename_package(St, n) :
          Ends(o, [Call("rename_package", o) EXCEPT !.valid = GrammarOk(n)])
ReplaceFile ==
    /\ More
    /\ \E t \in Targets, src \in Sources : \E o \in replace_file(St, t, src) :
          Ends(o, [Call("replace_file", o) EXCEPT !.target = t, !.source = src])
ReplaceMetadata ==
    /\ More
    /\ \E src \in Sources : \E o \in replace_metadata(St, src) :
          Ends(o, [Call("replace_metadata", o) EXCEPT !.source = src])
RenameFile ==
    /\ More
    /\ \E a \in Renames : \E o \in rename_file(St, a) : Ends(o, Call("rename_file", o))
Repackage ==
    /\ More
    /\ \E out \in Outputs : \E o \in repackage(St, out) :
          Ends(o, [Call("repackage", o) EXCEPT !.output = out])
UpdateRecordFile ==
    /\ More
    /\ \E o \in _update_record_file(St) : Ends(o, Call("_update_record_file", o))
ProcessWheel ==
    /\ More
    /\ \E a \in ProcessArgs, is_directory \in BOOLEAN :
          \E o \in process_wheel(St, a, is_directory) : Ends(o, Call("process_wheel", o))
Cleanup == More /\ Ends(Returned(cleanup(St)), Call("cleanup", Returned(cleanup(St))))

Init ==
    /\ dirs = {<<>>, <<D_TMP>>, <<D_IN>>, <<D_OUT>>, <<D_SRC>>}
    /\ files = SourceFiles
    /\ \E w \in Wheels : archives = (wheel_path :> w)
    /\ unpacked_dir = None
    /\ ntemp = 0
    /\ last = Record("init", Returned(St), [op |-> "none", err |-> "", name |-> <<>>])
    /\ nops = 0

Next ==
    \/ Unpack
    \/ GetMetadata
    \/ RenamePackage
    \/ ReplaceFile
    \/ ReplaceMetadata
    \/ RenameFile
    \/ Repackage
    \/ UpdateRecordFile
    \/ Cleanup

Spec == Init /\ [][Next]_vars

\* the command-line driver run on the wheel, time after time
NextCli == ProcessWheel
SpecCli == Init /\ [][NextCli]_vars

(***************************************************************************)
(* The claims.                                                             *)
(***************************************************************************)
\* the location a replace_file target names, given the extraction directory
TargetLocation(t, ud) == Resolve(IF t.abs THEN t.parts ELSE ud \o t.parts)
\* the target lies outside the extraction tree
Escapes(t, ud) == ~IsUnder(TargetLocation(t, ud), ud)
\* the step left every file outside the extraction tree as it was
OutsideUntouched ==
    \A p \in DOMAIN files' :
        ~IsUnder(p, unpacked_dir') => p \in DOMAIN files /\ files'[p] = files[p]

\* C1: a replace_file call whose target resolves outside the extraction tree
\* does not return normally (with the path-escape error when the source
\* exists), and creates or overwrites no file outside the tree.
C1_EscapingTargetRejected ==
    [][(/\ last'.op = "replace_file"
        /\ unpacked_dir' # None
        /\ Escapes(last'.target, unpacked_dir'))
       => /\ last'.err \in {E_OUTSIDE, E_NOT_FOUND}
          /\ OutsideUntouched]_vars

\* the records of a manifest: the fields of its non-blank lines
ManifestRecords(content) ==
    LET kept == SelectSeq(content, LAMBDA line : Strip(LineText(line)) # <<>>)
    IN  {Split(Strip(LineText(kept[k])), ",") : k \in 1..Len(kept)}
\* the manifests of a packed tree: the RECORD files of its .dist-info directories
Manifests(tree) ==
    {f \in DOMAIN tree.files :
        Len(f) = 2 /\ EndsWith(f[1], S_DISTINFO) /\ f[2] = S_RECORD}
\* manifest m of the tree lists file f with the hash and size of its contents
Listed(tree, m, f) ==
    \E r \in ManifestRecords(tree.files[m]) :
        /\ Len(r) >= 3
        /\ r[1] = PathStr(f)
        /\ r[2] = HashField(tree.files[f])
        /\ r[3] = SizeField(tree.files[f])
\* manifest m lists itself with empty hash and size
ListsItself(tree, m) ==
    \E r \in ManifestRecords(tree.files[m]) :
        Len(r) >= 3 /\ r[1] = PathStr(m) /\ r[2] = <<>> /\ r[3] = <<>>
ManifestComplete(tree) ==
    \A m \in Manifests(tree) :
        /\ ListsItself(tree, m)
        /\ \A f \in DOMAIN tree.files \ {m} : Listed(tree, m, f)

\* C2: in the tree a repackage has packed, every file other than the manifest
\* has a manifest entry with the hash and size of its contents, and the
\* manifest's own entry has empty hash and size.
C2_ManifestCoversTree ==
    (last.op = "repackage" /\ last.err = "")
        => ManifestComplete(archives[last.path])

\* the package name a Metadata Directory's name declares: the segment before
\* the first separator
DirPackageName(dir_name) == Split(dir_name, "-")[1]
\* the values of the Name fields of a metadata body
NameFields(content) ==
    {SubSeq(LineText(content[k]), Len(S_NAMEFIELD) + 1, Len(LineText(content[k]))) :
        k \in {j \in 1..Len(content) : StartsWith(LineText(content[j]), S_NAMEFIELD)}}
\* the metadata body of the directory the last rename_package renamed
RenamedMetadata == files[Append(last.path, S_METADATA)]
Renamed == last.op = "rename_package" /\ last.err = ""
RenamedWithNameField ==
    /\ Renamed
    /\ Append(last.path, S_METADATA) \in DOMAIN files
    /\ NameFields(RenamedMetadata) # {}

\* C3 as stated: after a successful rename_package the name the Metadata
\* Directory declares equals the Name field of the metadata body.
C3_DirAndNameFieldAgree ==
    RenamedWithNameField => NameFields(RenamedMetadata) = {DirPackageName(BaseName(last.path))}

\* C3 amended: after a successful rename_package(new_name) of a directory
\* <old>-<version>.dist-info, the directory declares new_name with every `-`
\* replaced by `_`, and the Name field of the metadata body is new_name itself.
C3_DirNormalizedNameFieldVerbatim ==
    Renamed =>
        /\ last.path \in dirs
        /\ DirPackageName(BaseName(last.path)) = StrReplace(last.name, <<"-">>, <<"_">>)
        /\ Append(last.path, S_METADATA) \in DOMAIN files
              => NameFields(RenamedMetadata) \subseteq {last.name}

\* a rename to a name with a separator reached a metadata body with a Name field
C3_Witness == RenamedWithNameField /\ Contains(last.name, <<"-">>)

\* C4: rename_package with a name that violates the distribution-name grammar
\* fails with the invalid-name error and leaves the file system and the
\* session as they were.
C4_InvalidNameRejected ==
    [][(last'.op = "rename_package" /\ ~last'.valid)
       => /\ last'.err = E_INVALID_NAME
          /\ UNCHANGED <<dirs, files, archives, unpacked_dir, ntemp>>]_vars

\* an invalid name was given to rename_package while a tree was unpacked
C4_Witness ==
    last.op = "rename_package" /\ ~last.valid /\ unpacked_dir # None /\ nops >= 2

\* get_metadata was called right after a successful rename_package
GotAfterRename ==
    last.op = "get_metadata" /\ last.prev.op = "rename_package" /\ last.prev.err = ""
\* the text get_metadata returned has the line `Name: n`
ReturnedNameLine(n) ==
    /\ last.err = ""
    /\ last.has
    /\ \E k \in 1..Len(last.text) : LineText(last.text[k]) = S_NAMEFIELD \o n
\* the tree has one Metadata Directory, whose METADATA has a Name field
OneMetadataDirWithNameField ==
    /\ unpacked_dir # None
    /\ Cardinality(DistInfoGlob(St)) = 1
    /\ \A d \in DistInfoGlob(St) :
          /\ Append(d, S_METADATA) \in DOMAIN files
          /\ NameFields(files[Append(d, S_METADATA)]) # {}

\* C5 as stated: for every unpacked archive, rename_package(n) followed by
\* get_metadata() returns a text that contains the line `Name: n`.
C5_GetMetadataHasNewName == GotAfterRename => ReturnedNameLine(last.prev.name)

\* C5 amended: the same for every unpacked archive with exactly one Metadata
\* Directory whose METADATA file has a line that begins with `Name: `.
C5_GetMetadataHasNewNameIfNamed ==
    (GotAfterRename /\ OneMetadataDirWithNameField) => ReturnedNameLine(last.prev.name)

\* get_metadata followed a rename to a name with a separator
C5_Witness ==
    /\ GotAfterRename
    /\ OneMetadataDirWithNameField
    /\ Contains(last.prev.name, <<"-">>)
    /\ last.has

\* C6: after a rename_package made while a manifest exists, no manifest entry
\* names a path under a .dist-info directory that no longer exists.
C6_ManifestFollowsRename ==
    (Renamed /\ Append(last.path, S_RECORD) \in DOMAIN files) =>
        \A r \in ManifestRecords(files[Append(last.path, S_RECORD)]) :
            LET path == StrPath(r[1])
            IN  (path # <<>> /\ EndsWith(path[1], S_DISTINFO))
                    => Append(unpacked_dir, path[1]) \in dirs

\* C7: a repackage that returns has written the archive at exactly
\* output_path, or at the session's archive path when output_path is omitted.
C7_ArchiveAtOutputPath ==
    (last.op = "repackage" /\ last.err = "") =>
        last.path = (IF last.output = None THEN wheel_path ELSE last.output)

\* C8: the session never has more than one temporary directory on disk, and
\* has none once cleanup has returned.
C8_NoLeakedTempDir ==
    /\ Cardinality(TempDirs(St)) <= 1
    /\ last.op = "cleanup" => TempDirs(St) = {}

\* the state after the step
StNext == [dirs |-> dirs', files |-> files', archives |-> archives',
           unpacked_dir |-> unpacked_dir', ntemp |-> ntemp']

\* C9: cleanup never fails; on a session that is not unpacked it changes
\* nothing; on an unpacked session it removes the extraction directory with
\* all its contents, leaves everything outside the temporary directory alone
\* and resets the session; a second cleanup then changes nothing.
C9_CleanupIdempotent ==
    [][last'.op = "cleanup"
       => /\ last'.err = ""
          /\ unpacked_dir' = None
          /\ archives' = archives /\ ntemp' = ntemp
          /\ unpacked_dir = None => (dirs' = dirs /\ files' = files)
          /\ unpacked_dir # None =>
                /\ \A p \in dirs' \cup DOMAIN files' : ~IsUnder(p, unpacked_dir)
                /\ \A p \in dirs : ~IsUnder(p, Parent(unpacked_dir)) => p \in dirs'
                /\ \A p \in DOMAIN files :
                      ~IsUnder(p, Parent(unpacked_dir))
                          => p \in DOMAIN files' /\ files'[p] = files[p]
          /\ cleanup(StNext) = StNext]_vars

\* cleanup ran on a session whose rename_package had failed partway: the
\* directory renamed, the metadata body not rewritten
C9_Witness ==
    /\ last.op = "cleanup"
    /\ last.prev.op = "rename_package"
    /\ last.prev.err = E_DECODE
    /\ unpacked_dir = None
    /\ TempDirs(St) = {}
    /\ ntemp >= 1

\* C10: every repackage call made on an unpacked session, returning or
\* raising, leaves the extraction directory removed and the session not
\* unpacked.
C10_RepackageCleansUp ==
    [][(last'.op = "repackage" /\ unpacked_dir # None)
       => /\ unpacked_dir' = None
          /\ unpacked_dir \notin dirs']_vars

\* C11: repackage called on a session that is not unpacked fails with the
\* state error, writes no archive and leaves the file system and the session
\* as they were.
C11_RepackageNeedsUnpacked ==
    [][(last'.op = "repackage" /\ unpacked_dir = None)
       => /\ last'.err = E_NOT_UNPACKED
          /\ UNCHANGED <<dirs, files, archives, unpacked_dir, ntemp>>]_vars

\* repackage was called after a cleanup, on a session that is not unpacked
C11_Witness ==
    /\ last.op = "repackage"
    /\ last.err = E_NOT_UNPACKED
    /\ last.prev.op = "cleanup"
    /\ unpacked_dir = None

\* the operations that need the Metadata Directory, manifest regeneration aside
MetadataOps == {"get_metadata", "rename_package", "replace_metadata"}

\* C12: an unpack that leaves the session unpacked has found exactly one
\* Metadata Directory, and get_metadata, rename_package and replace_metadata
\* called on a tree with none or several fail (with the structural error
\* unless the name or the source is rejected first).
C12_MetadataDirMustBeUnique ==
    [][/\ (last'.op = "unpack" /\ unpacked_dir = None /\ unpacked_dir' # None)
             => Cardinality(DistInfoGlob(StNext)) = 1
       /\ (last'.op \in MetadataOps /\ unpacked_dir # None
             /\ Cardinality(DistInfoGlob(St)) # 1)
             => last'.err \in {E_NO_DISTINFO, E_INVALID_NAME, E_NOT_FOUND}]_vars

\* the files of the extraction tree
TreeFiles(s) == {p \in DOMAIN s.files : IsUnder(p, s.unpacked_dir)}
\* the old paths of the pairs a rename_file call returned
RenamedFrom(pairs) == {StrPath(pairs[k][1]) : k \in 1..Len(pairs)}

\* C13: a rename_file call that returns leaves every file it did not rename at
\* its path with its contents, and the tree has as many files as before.
C13_RenameFileLosesNothing ==
    [][(last'.op = "rename_file" /\ last'.err = "" /\ unpacked_dir # None)
       => /\ \A p \in TreeFiles(St) :
                RelativeTo(p, unpacked_dir) \notin RenamedFrom(last'.renamed)
                    => p \in DOMAIN files' /\ files'[p] = files[p]
          /\ Cardinality(TreeFiles(StNext)) = Cardinality(TreeFiles(St))]_vars

\* C14: replace_file and replace_metadata called with a source that does not
\* exist fail with the not-found error and change nothing: no file, no
\* directory, and no extraction directory allocated by the call.
C14_MissingSourceRejectedFirst ==
    [][(last'.op \in {"replace_file", "replace_metadata"} /\ last'.source = SRC_MISSING)
       => /\ last'.err = E_NOT_FOUND
          /\ UNCHANGED <<dirs, files, archives, unpacked_dir, ntemp>>]_vars

\* C15: unpack called on a session that has an extraction directory returns
\* that directory and changes nothing: no codec call, no new temporary
\* directory, the tree as the edits left it.
C15_UnpackIdempotent ==
    [][(last'.op = "unpack" /\ unpacked_dir # None)
       => /\ last'.err = ""
          /\ last'.path = unpacked_dir
          /\ UNCHANGED <<dirs, files, archives, unpacked_dir, ntemp>>]_vars

\* unpack was called again after a rename_package had edited the tree
C15_Witness ==
    /\ last.op = "unpack"
    /\ last.err = ""
    /\ last.prev.op = "rename_package"
    /\ last.prev.err = ""
    /\ unpacked_dir # None

\* the directory name is <name>-<version>.dist-info
HasVersionSuffix(dir_name) ==
    /\ EndsWith(dir_name, S_DISTINFO)
    /\ Contains(SubSeq(dir_name, 1, Len(dir_name) - Len(S_DISTINFO)), <<"-">>)
\* its -<version>.dist-info: from the last hyphen before .dist-info on
VersionSuffix(dir_name) ==
    LET hyphens == {i \in 1..(Len(dir_name) - Len(S_DISTINFO)) : dir_name[i] = "-"}
    IN  SubSeq(dir_name, CHOOSE i \in hyphens : \A j \in hyphens : j <= i, Len(dir_name))

\* C16: a successful rename_package of a Metadata Directory named
\* <old>-<version>.dist-info leaves a directory whose name ends with the same
\* -<version>.dist-info, the new name before it.
C16_VersionSuffixKept ==
    (Renamed /\ HasVersionSuffix(BaseName(last.old))) =>
        /\ last.path \in dirs
        /\ HasVersionSuffix(BaseName(last.path))
        /\ VersionSuffix(BaseName(last.path)) = VersionSuffix(BaseName(last.old))
        /\ BaseName(last.path) = StrReplace(last.name, <<"-">>, <<"_">>)
                                    \o VersionSuffix(BaseName(last.old))

\* the directory renamed had a hyphen in its name and a dot in its version,
\* and the new name has a hyphen
C16_Witness ==
    /\ Renamed
    /\ BaseName(last.old) = DistInfoName(N_OTHER, V_OTHER)
    /\ Contains(last.name, <<"-">>)

\* the manifest was regenerated: _update_record_file returned
Regenerated == last.op = "_update_record_file" /\ last.err = ""

\* C17: regenerating the manifest again, with no edit since a regeneration,
\* returns and leaves every record (so every hash and size field) as the
\* first regeneration wrote it.
C17_RegenerationIdempotent ==
    Regenerated => \A r \in _update_record_file(St) : r.err = "" /\ r.s.files = files

\* the records of a manifest in order: the fields of its non-blank lines
RecordLines(content) ==
    LET kept == SelectSeq(content, LAMBDA line : Strip(LineText(line)) # <<>>)
    IN  [k \in 1..Len(kept) |-> Split(Strip(LineText(kept[k])), ",")]
\* the file a record's path field names in the tree below ud
RecordedFile(ud, record) == Resolve(ud \o StrPath(record[1]))

\* C18: of the records with three or more fields that manifest regeneration
\* read, the one whose path is the manifest's own is written with empty hash
\* and size, and every other one whose path is a file of the tree is written
\* with the hash and the byte length of that file's contents.
C18_OnlyOwnEntryBlank ==
    [][(last'.op = "_update_record_file" /\ last'.err = "" /\ last'.path # None)
       => LET read == RecordLines(files[last'.path])
              written == files'[last'.path]
          IN  /\ Len(written) = Len(read)
              /\ \A k \in 1..Len(read) :
                    LET f == RecordedFile(unpacked_dir, read[k])
                    IN  Len(read[k]) >= 3 =>
                          /\ f = last'.path
                                => written[k][2] = <<>> /\ written[k][3] = <<>>
                          /\ (f # last'.path /\ f \in DOMAIN files)
                                => /\ written[k][2] = HashField(files[f])
                                   /\ written[k][3] = SizeField(files[f])]_vars

\* C19: manifest regeneration writes one record of three fields per non-blank
\* line it read, in the same order and with the same path field; a record
\* whose path is not in the tree keeps the hash and size it had, and a record
\* of fewer than three fields keeps its fields, padded with empty ones.
C19_RecordsKeptInOrder ==
    [][(last'.op = "_update_record_file" /\ last'.err = "" /\ last'.path # None)
       => LET read == RecordLines(files[last'.path])
              written == files'[last'.path]
          IN  /\ Len(written) = Len(read)
              /\ \A k \in 1..Len(read) :
                    /\ Len(written[k]) = 3
                    /\ written[k][1] = read[k][1]
                    /\ Len(read[k]) < 3
                          => \A i \in 1..3 :
                                written[k][i] = IF i <= Len(read[k]) THEN read[k][i] ELSE <<>>
                    /\ (Len(read[k]) >= 3 /\ ~Exists(St, unpacked_dir \o StrPath(read[k][1])))
                          => written[k][2] = read[k][2] /\ written[k][3] = read[k][3]]_vars

\* C20: every pair (old, new) a rename_file call returns names a file that was
\* in the tree when the call started, and when old differs from new the file
\* is at new and not at old when the call returns.
C20_EachFileMovedOnce ==
    [][(last'.op = "rename_file" /\ last'.err = "" /\ unpacked_dir # None)
       => \A k \in 1..Len(last'.renamed) :
             LET old == unpacked_dir \o StrPath(last'.renamed[k][1])
                 new == unpacked_dir \o StrPath(last'.renamed[k][2])
             IN  /\ old \in DOMAIN files
                 /\ old # new => (new \in DOMAIN files' /\ old \notin DOMAIN files')]_vars

\* the line of a metadata body that holds the Name header field: the first
\* line that begins with `Name: ` (0 when there is none)
NameHeaderLine(content) ==
    LET named == {k \in 1..Len(content) : StartsWith(LineText(content[k]), S_NAMEFIELD)}
    IN  IF named = {} THEN 0 ELSE CHOOSE k \in named : \A j \in named : k <= j

\* C21: a rename_package that returns leaves the metadata body with the same
\* lines as before, each identical to what it was except the line of the Name
\* header field.
C21_OnlyNameFieldChanges ==
    [][(/\ last'.op = "rename_package" /\ last'.err = ""
        /\ unpacked_dir # None
        /\ Append(last'.old, S_METADATA) \in DOMAIN files)
       => LET before == files[Append(last'.old, S_METADATA)]
              after == files'[Append(last'.path, S_METADATA)]
          IN  /\ Len(after) = Len(before)
              /\ \A k \in 1..Len(before) :
                    k # NameHeaderLine(before) => after[k] = before[k]]_vars

\* C22: when process_wheel exits, returning or raising, no temporary
\* directory created during the call remains.
C22_ProcessWheelReleases ==
    [][last'.op = "process_wheel"
       => \A k \in (ntemp + 1)..ntemp' : TempDir(k) \notin dirs']_vars

====
